---- MODULE Spec2Model ----
(***************************************************************************)
(* cargo-goosectl: the semantic-version transition engine                  *)
(* (version/semantic_version.rs, version/transition/{mod,fsm}.rs) and the  *)
(* bump command that drives it over the selected packages (cli/mod.rs).    *)
(*                                                                         *)
(* Text is modelled as a sequence of one-character strings, so that        *)
(* splitting on '.', rendering a counter in decimal, parsing it back and   *)
(* the semver validation and precedence rules are computed, not assumed.   *)
(***************************************************************************)
EXTENDS Integers, Sequences, FiniteSets, TLC

VARIABLES
    cur,              \* the package's current SemanticVersion (NoVersion before construction)
    last,             \* the engine call whose outcome the caller holds: operation, receiver, request, outcome
    phase,            \* "new" (no version yet) | "ready" | "returned" (an outcome to take)
    version_text,     \* the version text last parsed or rendered
    overflow_checks,  \* build profile: TRUE = arithmetic overflow panics, FALSE = it wraps
    meta,             \* bump: package -> package.version of the cargo metadata
    manifest,         \* bump: package -> text of package.version in its manifest file
    deps,             \* bump: package -> dependency name -> the entry in its manifest file
    pkgs,             \* bump: the selected packages, in order
    workspace,        \* bump: global.workspace
    dry_run,          \* bump: global.dry_run
    no_propagate,     \* bump: args.no_propagate
    args,             \* bump: the transition request built from the command line
    target,           \* bump: args.target, the subcommand of the command line
    pc,               \* bump: "idle" | "phase1" | "phase2" | "done"
    idx,              \* bump: position of the running loop
    updated,          \* bump: updated_packages, package name -> next version
    written,          \* bump: the manifest files written so far
    propagated,       \* bump: the manifest files written by the propagation
    output,           \* bump: the report lines printed so far
    result,           \* bump: "none" | "ok" | "err_construct" | "err_apply" | "panic"
    selection,        \* the select_packages call: flags, names, workspace, and its outcome
    repr              \* the machine-readable record made of the version in hand

engineVars == <<cur, last, phase, version_text>>

bumpVars ==
    <<meta, manifest, deps, pkgs, workspace, dry_run, no_propagate, args, target, pc,
      idx, updated, written, propagated, output, result>>

vars == <<engineVars, overflow_checks, bumpVars, selection, repr>>

---------------------------------------------------------------------------
(* Values: versions, requests, outcomes, calls.  Every record is written   *)
(* with its fields in one fixed order.                                     *)

Levels == {"Patch", "Minor", "Major"}

Kinds == {"StartPrerelease", "IncrementPrerelease", "TransitionPrerelease",
          "FinalizeRelease", "BumpRelease"}

\* SemanticVersion(Version): pre and build are texts, empty when absent
MkVersion(ma, mi, pa, pr, bd) ==
    [major |-> ma, minor |-> mi, patch |-> pa, pre |-> pr, build |-> bd]

NoVersion == MkVersion(0, 0, 0, <<>>, <<>>)

\* Option<String>
None == [some |-> FALSE, text |-> <<>>]

Some(t) == [some |-> TRUE, text |-> t]

\* TransitionInput: level and pre are "-" and empty for the kinds that carry none
MkInput(k, lv, pr, md) ==
    [pre |-> pr, kind |-> k, level |-> lv, metadata |-> md]

NoInput == MkInput("-", "-", <<>>, None)

\* VersionBump: the subcommand and its arguments ("-" for a subcommand without level)
MkTarget(sc, lv, pr, md) ==
    [subcommand |-> sc, cli_level |-> lv, cli_pre |-> pr, cli_metadata |-> md]

NoTarget == MkTarget("-", "-", None, None)

\* Result<SemanticVersion>: Ok(ver), Err(err), or a panic (err names the expectation hit)
Ok(v) == [tag |-> "Ok", ver |-> v, err |-> "-"]

Err(e) == [tag |-> "Err", ver |-> NoVersion, err |-> e]

Panic(e) == [tag |-> "Panic", ver |-> NoVersion, err |-> e]

\* a call of the engine and what it returned
Call(o, rc, rq, oc) == [op |-> o, recv |-> rc, req |-> rq, out |-> oc]

NoCall == Call("-", NoVersion, NoInput, Ok(NoVersion))

\* a dependency entry of a manifest: how it is written, and its version sub-field
MkDep(h, dv) == [how |-> h, depver |-> dv]

\* a report line: "package" (name, from, to) or "dependency" (name, in package, to),
\* after the prefix of the run
MkLine(pf, w, nm, inp, fr, to) ==
    [what |-> w, name |-> nm, inpkg |-> inp, from |-> fr, upto |-> to, prefix |-> pf]

\* Result<u64>
U64Ok(n) == [ok |-> TRUE, num |-> n]

U64Fail == [ok |-> FALSE, num |-> 0]

\* Result<Prerelease{ident, iteration}>
PrereleaseOk(id, n) == [err |-> "-", ok |-> TRUE, ident |-> id, iteration |-> n]

PrereleaseErr(e) == [err |-> e, ok |-> FALSE, ident |-> <<>>, iteration |-> 0]

\* Result<Option<Prerelease>>
OptPrerelease(t, p) == [tag |-> t, parsed |-> p]

\* Result<semver::Prerelease>
TextOk(t) == [text |-> t, ok |-> TRUE]

TextFail == [text |-> <<>>, ok |-> FALSE]

\* Result<Vec<&Package>>: the packages selected, or why none
SelOk(l) == [selected |-> TRUE, list |-> l, why |-> "-"]

SelErr(e) == [selected |-> FALSE, list |-> <<>>, why |-> e]

\* a select_packages call: --workspace, the --package names, the workspace members
\* and root package of the metadata (0: none), and the outcome
MkSelection(ws, nms, mem, rt, oc) ==
    [flag |-> ws, names |-> nms, members |-> mem, root |-> rt, outcome |-> oc]

NoSelection == MkSelection(FALSE, <<>>, {}, 0, SelOk(<<>>))

\* CurrentVersionRepr; pre is an Option<String>, iteration is U64Ok(n) when present
\* and U64Fail when absent
MkRepr(vs, ma, mi, pa, pr, it, bd, isp) ==
    [major |-> ma, minor |-> mi, patch |-> pa, pre |-> pr, build |-> bd,
     iteration |-> it, version |-> vs, is_prerelease |-> isp]

NoRepr == MkRepr(<<>>, 0, 0, 0, None, U64Fail, None, FALSE)

---------------------------------------------------------------------------
(* u64 arithmetic, scaled down: U64_MAX stands for u64::MAX.               *)
U64_MAX == 2

U64 == 0..U64_MAX

---------------------------------------------------------------------------
(* Characters and text.                                                    *)
Digits == <<"0", "1", "2", "3", "4", "5", "6", "7", "8", "9">>

DigitSet == {Digits[i] : i \in 1..10}

LetterSet == {"a", "b", "x"}

\* byte value of a character (ASCII), the order str::cmp uses
Ascii(c) ==
    CASE c = " " -> 32
      [] c = "+" -> 43
      [] c = "-" -> 45
      [] c = "." -> 46
      [] c \in DigitSet -> 48 + (CHOOSE i \in 0..9 : Digits[i + 1] = c)
      [] c = "a" -> 97
      [] c = "b" -> 98
      [] c = "x" -> 120

DigitVal(c) == Ascii(c) - 48

AllDigits(s) == \A i \in 1..Len(s) : s[i] \in DigitSet

\* str::split('.'): the pieces between the separators; "" splits into one empty piece
RECURSIVE SplitFrom(_, _, _)
SplitFrom(s, i, piece) ==
    IF i > Len(s) THEN <<piece>>
    ELSE IF s[i] = "." THEN <<piece>> \o SplitFrom(s, i + 1, <<>>)
    ELSE SplitFrom(s, i + 1, Append(piece, s[i]))

Split(s) == SplitFrom(s, 1, <<>>)

\* value of a string of decimal digits
RECURSIVE DecVal(_)
DecVal(s) ==
    IF s = <<>> THEN 0 ELSE 10 * DecVal(SubSeq(s, 1, Len(s) - 1)) + DigitVal(s[Len(s)])

\* format!("{}", n) for an unsigned integer
RECURSIVE ToDec(_)
ToDec(n) ==
    IF n < 10 THEN <<Digits[n + 1]>> ELSE ToDec(n \div 10) \o <<Digits[(n % 10) + 1]>>

\* str::parse::<u64>: an optional '+', then at least one digit, value within u64
ParseU64(s) ==
    LET body == IF s # <<>> /\ s[1] = "+" THEN Tail(s) ELSE s
    IN  IF body # <<>> /\ AllDigits(body) /\ DecVal(body) <= U64_MAX
        THEN U64Ok(DecVal(body))
        ELSE U64Fail

\* str::cmp: bytewise lexicographic order; -1, 0, 1
RECURSIVE StrCmp(_, _)
StrCmp(a, b) ==
    IF a = <<>> /\ b = <<>> THEN 0
    ELSE IF a = <<>> THEN -1
    ELSE IF b = <<>> THEN 1
    ELSE IF Ascii(a[1]) < Ascii(b[1]) THEN -1
    ELSE IF Ascii(a[1]) > Ascii(b[1]) THEN 1
    ELSE StrCmp(Tail(a), Tail(b))

---------------------------------------------------------------------------
(* The semver crate: identifier validation and prerelease precedence.      *)

IdentChar(c) == c \in DigitSet \/ c \in LetterSet \/ c = "-"

\* semver::Prerelease::new / BuildMetadata::new accept the text: the empty text is
\* EMPTY; otherwise dot-separated non-empty identifiers over [0-9A-Za-z-], and in a
\* prerelease a numeric identifier of more than one digit has no leading zero
SemverIdentifierOk(text, isPre) ==
    \/ text = <<>>
    \/ /\ \A i \in 1..Len(text) : IdentChar(text[i]) \/ text[i] = "."
       /\ LET parts == Split(text)
          IN  \A k \in 1..Len(parts) :
                /\ parts[k] # <<>>
                /\ (isPre /\ Len(parts[k]) > 1 /\ AllDigits(parts[k])) => parts[k][1] # "0"

\* one identifier against another, both present: -1, 0, 1
IdentCmp(l, r) ==
    CASE AllDigits(l) /\ AllDigits(r) ->
            IF Len(l) < Len(r) THEN -1 ELSE IF Len(l) > Len(r) THEN 1 ELSE StrCmp(l, r)
      [] AllDigits(l) /\ ~AllDigits(r) -> -1
      [] ~AllDigits(l) /\ AllDigits(r) -> 1
      [] OTHER -> StrCmp(l, r)

RECURSIVE PartsCmp(_, _)
PartsCmp(ls, rs) ==
    IF ls = <<>> THEN (IF rs = <<>> THEN 0 ELSE -1)
    ELSE IF rs = <<>> THEN 1
    ELSE IF IdentCmp(ls[1], rs[1]) # 0 THEN IdentCmp(ls[1], rs[1])
    ELSE PartsCmp(Tail(ls), Tail(rs))

\* impl Ord for semver::Prerelease: EMPTY (a release) is greater than any prerelease
PreCmp(a, b) ==
    IF a = <<>> /\ b = <<>> THEN 0
    ELSE IF a = <<>> THEN 1
    ELSE IF b = <<>> THEN -1
    ELSE PartsCmp(Split(a), Split(b))

---------------------------------------------------------------------------
(* version/semantic_version.rs                                             *)

\* `n + 1` on a u64: at u64::MAX it panics when the build checks overflow, and
\* wraps to 0 when it does not
AddOne(n) ==
    IF n < U64_MAX THEN U64Ok(n + 1)
    ELSE IF overflow_checks THEN U64Fail
    ELSE U64Ok(0)

is_prerelease(v) == v.pre # <<>>

\* Prerelease::parse: Ok(Prerelease{ident, iteration}) or an error
PrereleaseParse(s) ==
    LET parts == Split(s)
    IN  IF Len(parts) < 2
        THEN PrereleaseErr("missing counter")
        ELSE IF ~ParseU64(parts[2]).ok
        THEN PrereleaseErr("counter must be numeric")
        ELSE IF Len(parts) > 2
        THEN PrereleaseErr("too many components")
        ELSE PrereleaseOk(parts[1], ParseU64(parts[2]).num)

\* SemanticVersion::prerelease: "None", "Some" (with p) or "Err"
prerelease(v) ==
    IF v.pre = <<>> THEN OptPrerelease("None", PrereleaseParse(<<>>))
    ELSE IF PrereleaseParse(v.pre).ok THEN OptPrerelease("Some", PrereleaseParse(v.pre))
    ELSE OptPrerelease("Err", PrereleaseParse(v.pre))

\* the build metadata cleared along with the prerelease
clear_prerelease_drops_build(v) == Ok([v EXCEPT !.pre = <<>>, !.build = <<>>])

clear_prerelease(v) == Ok([v EXCEPT !.pre = <<>>])

\* SemanticVersion::build: None when the build metadata is empty
build(v) == IF v.build = <<>> THEN None ELSE Some(v.build)

\* `None` leaving the build metadata as it was instead of clearing it
with_build_keeps_old(v, metadata) ==
    IF ~metadata.some THEN Ok(v)
    ELSE IF SemverIdentifierOk(metadata.text, FALSE) THEN Ok([v EXCEPT !.build = metadata.text])
    ELSE Err("metadata validated by semver")

with_build(v, metadata) ==
    IF ~metadata.some THEN Ok([v EXCEPT !.build = <<>>])
    ELSE IF SemverIdentifierOk(metadata.text, FALSE) THEN Ok([v EXCEPT !.build = metadata.text])
    ELSE Err("metadata validated by semver")

\* format!("{}.{}", ident, iteration)
PrereleaseText(p) == p.ident \o <<".">> \o ToDec(p.iteration)

\* Prerelease::to_semver: the text when semver accepts it; expect("always valid") otherwise
to_semver(p) ==
    IF SemverIdentifierOk(PrereleaseText(p), TRUE)
    THEN TextOk(PrereleaseText(p))
    ELSE TextFail

with_prerelease(v, p) ==
    IF to_semver(p).ok THEN Ok([v EXCEPT !.pre = to_semver(p).text])
    ELSE Panic("always valid")

\* Prerelease::increment
increment(p) ==
    IF AddOne(p.iteration).ok THEN PrereleaseOk(p.ident, AddOne(p.iteration).num)
    ELSE PrereleaseErr("attempt to add with overflow")

\* the component incremented, the lower components left as they were
bump_level_keeps_lower(v, level) ==
    LET inc == CASE level = "Major" -> AddOne(v.major)
                 [] level = "Minor" -> AddOne(v.minor)
                 [] level = "Patch" -> AddOne(v.patch)
    IN  IF ~inc.ok THEN Panic("attempt to add with overflow")
        ELSE CASE level = "Major" -> Ok([v EXCEPT !.major = inc.num])
               [] level = "Minor" -> Ok([v EXCEPT !.minor = inc.num])
               [] level = "Patch" -> Ok([v EXCEPT !.patch = inc.num])

bump_level(v, level) ==
    LET inc == CASE level = "Major" -> AddOne(v.major)
                 [] level = "Minor" -> AddOne(v.minor)
                 [] level = "Patch" -> AddOne(v.patch)
    IN  IF ~inc.ok THEN Panic("attempt to add with overflow")
        ELSE CASE level = "Major" -> Ok([v EXCEPT !.major = inc.num, !.minor = 0, !.patch = 0])
               [] level = "Minor" -> Ok([v EXCEPT !.minor = inc.num, !.patch = 0])
               [] level = "Patch" -> Ok([v EXCEPT !.patch = inc.num])

\* impl TryFrom<Version> for SemanticVersion
try_from(val) ==
    IF val.pre # <<>> /\ ~PrereleaseParse(val.pre).ok
    THEN Err(PrereleaseParse(val.pre).err)
    ELSE Ok(val)

---------------------------------------------------------------------------
(* version/transition/mod.rs                                               *)

\* the prerelease started on the current version line, without the bump
start_prerelease_no_bump(v, level, pre, metadata) ==
    LET r == with_prerelease(v, PrereleaseOk(pre, 1))
    IN  IF r.tag = "Ok" THEN with_build(r.ver, metadata) ELSE r

start_prerelease(v, level, pre, metadata) ==
    LET r1 == bump_level(v, level)
        r2 == IF r1.tag = "Ok"
              THEN with_prerelease(r1.ver, PrereleaseOk(pre, 1)) ELSE r1
    IN  IF r2.tag = "Ok" THEN with_build(r2.ver, metadata) ELSE r2

increment_prerelease(v, metadata) ==
    LET cp == prerelease(v)
    IN  CASE cp.tag = "Err" -> Err("Prerelease should have been validated")
          [] cp.tag = "None" -> Err("You can only increment a pre-release")
          [] cp.tag = "Some" ->
                IF ~increment(cp.parsed).ok THEN Panic("attempt to add with overflow")
                ELSE LET r == with_prerelease(v, increment(cp.parsed))
                     IN  IF r.tag = "Ok" THEN with_build(r.ver, metadata) ELSE r

\* `<` in place of `<=`: a new prerelease equal to the old one is let through
transition_prerelease_accepts_equal(v, pre, metadata) ==
    LET new_prerelease == PrereleaseOk(pre, 1)
        cp == prerelease(v)
    IN  CASE cp.tag = "Err" -> Err("Prerelease should have been validated")
          [] cp.tag = "None" -> Panic("illegal state")
          [] cp.tag = "Some" ->
                IF ~to_semver(new_prerelease).ok \/ ~to_semver(cp.parsed).ok
                THEN Panic("always valid")
                ELSE IF PreCmp(to_semver(new_prerelease).text, to_semver(cp.parsed).text) < 0
                THEN Err("New prerelease must be further than old prerelease.")
                ELSE LET r == with_prerelease(v, new_prerelease)
                     IN  IF r.tag = "Ok" THEN with_build(r.ver, metadata) ELSE r

transition_prerelease(v, pre, metadata) ==
    LET new_prerelease == PrereleaseOk(pre, 1)
        cp == prerelease(v)
    IN  CASE cp.tag = "Err" -> Err("Prerelease should have been validated")
          [] cp.tag = "None" -> Panic("illegal state")
          [] cp.tag = "Some" ->
                IF ~to_semver(new_prerelease).ok \/ ~to_semver(cp.parsed).ok
                THEN Panic("always valid")
                ELSE IF PreCmp(to_semver(new_prerelease).text, to_semver(cp.parsed).text) <= 0
                THEN Err("New prerelease must be further than old prerelease.")
                ELSE LET r == with_prerelease(v, new_prerelease)
                     IN  IF r.tag = "Ok" THEN with_build(r.ver, metadata) ELSE r

\* the build set, the prerelease left in place
finalize_release_keeps_prerelease(v, metadata) == with_build(v, metadata)

finalize_release(v, metadata) ==
    LET r == clear_prerelease(v)
    IN  IF r.tag = "Ok" THEN with_build(r.ver, metadata) ELSE r

\* the patch component bumped whatever the level
bump_release_patch_only(v, level, metadata) ==
    LET r == bump_level(v, "Patch")
    IN  IF r.tag = "Ok" THEN with_build(r.ver, metadata) ELSE r

bump_release(v, level, metadata) ==
    LET r == bump_level(v, level)
    IN  IF r.tag = "Ok" THEN with_build(r.ver, metadata) ELSE r

apply_unchecked(v, t) ==
    CASE t.kind = "StartPrerelease" -> start_prerelease(v, t.level, t.pre, t.metadata)
      [] t.kind = "IncrementPrerelease" -> increment_prerelease(v, t.metadata)
      [] t.kind = "TransitionPrerelease" -> transition_prerelease(v, t.pre, t.metadata)
      [] t.kind = "FinalizeRelease" -> finalize_release(v, t.metadata)
      [] t.kind = "BumpRelease" -> bump_release(v, t.level, t.metadata)

---------------------------------------------------------------------------
(* version/transition/fsm.rs                                               *)

state(v) == IF is_prerelease(v) THEN "Prerelease" ELSE "Release"

kind(t) == t.kind

\* a grammar that lets BumpRelease through from a prerelease and reports
\* every other illegal pair with one and the same variant
validate_loose(from, k) ==
    IF \/ (from = "Release" /\ k \in {"StartPrerelease", "BumpRelease"})
       \/ (from = "Prerelease" /\ k # "StartPrerelease")
    THEN "Ok"
    ELSE "StartPrereleaseFromPrerelease"

\* a grammar that refuses nothing
validate_unchecked(from, k) == "Ok"

\* validate: "Ok", or the TransitionError variant of the illegal pair
validate(from, k) ==
    CASE (from = "Release" /\ k = "StartPrerelease")
         \/ (from = "Prerelease" /\ k = "IncrementPrerelease")
         \/ (from = "Prerelease" /\ k = "TransitionPrerelease")
         \/ (from = "Prerelease" /\ k = "FinalizeRelease")
         \/ (from = "Release" /\ k = "BumpRelease") -> "Ok"
      [] from = "Prerelease" /\ k = "StartPrerelease" -> "StartPrereleaseFromPrerelease"
      [] from = "Release" /\ k = "IncrementPrerelease" -> "IncrementPrereleaseFromRelease"
      [] from = "Release" /\ k = "FinalizeRelease" -> "FinalizeReleaseFromRelease"
      [] from = "Prerelease" /\ k = "BumpRelease" -> "BumpReleaseFromPrerelease"
      [] from = "Release" /\ k = "TransitionPrerelease" -> "TransitionPrereleaseFromRelease"

TransitionErrors ==
    {"StartPrereleaseFromPrerelease", "IncrementPrereleaseFromRelease",
     "FinalizeReleaseFromRelease", "BumpReleaseFromPrerelease",
     "TransitionPrereleaseFromRelease"}

\* the transformation run first, the legality check only on its success
apply_transform_first(v, t) ==
    IF apply_unchecked(v, t).tag # "Ok" THEN apply_unchecked(v, t)
    ELSE IF validate(state(v), kind(t)) # "Ok" THEN Err(validate(state(v), kind(t)))
    ELSE apply_unchecked(v, t)

apply(v, t) ==
    IF validate(state(v), kind(t)) # "Ok" THEN Err(validate(state(v), kind(t)))
    ELSE apply_unchecked(v, t)

---------------------------------------------------------------------------
(* version/transition.rs: the earlier draft of the engine, each method     *)
(* checking the state it needs.                                            *)

\* SemanticVersion::with_metadata: the build validated and replaced, None clearing it
with_metadata(v, metadata) ==
    IF ~metadata.some THEN Ok([v EXCEPT !.build = <<>>])
    ELSE IF SemverIdentifierOk(metadata.text, FALSE) THEN Ok([v EXCEPT !.build = metadata.text])
    ELSE Err("metadata validated by semver")

draft_start_prerelease(v, level, pre, metadata) ==
    IF is_prerelease(v)
    THEN Err("You can only start a new pre-release from a release-level version")
    ELSE LET r1 == bump_level(v, level)
             r2 == IF r1.tag = "Ok"
                   THEN with_prerelease(r1.ver, PrereleaseOk(pre, 1)) ELSE r1
         IN  IF r2.tag = "Ok" THEN with_metadata(r2.ver, metadata) ELSE r2

draft_increment_prerelease(v, metadata) ==
    LET cp == prerelease(v)
    IN  CASE cp.tag = "Err" -> Err("Prerelease should have been validated")
          [] cp.tag = "None" -> Err("You can only increment a pre-release")
          [] cp.tag = "Some" ->
                IF ~increment(cp.parsed).ok THEN Panic("attempt to add with overflow")
                ELSE LET r == with_prerelease(v, increment(cp.parsed))
                     IN  IF r.tag = "Ok" THEN with_metadata(r.ver, metadata) ELSE r

draft_transition_prerelease(v, pre, metadata) ==
    LET new_prerelease == PrereleaseOk(pre, 1)
        cp == prerelease(v)
    IN  CASE cp.tag = "Err" -> Err("Prerelease should have been validated")
          [] cp.tag = "None" -> Err("You can only transition from one prerelease to another")
          [] cp.tag = "Some" ->
                IF ~to_semver(new_prerelease).ok \/ ~to_semver(cp.parsed).ok
                THEN Panic("always valid")
                ELSE IF PreCmp(to_semver(new_prerelease).text, to_semver(cp.parsed).text) <= 0
                THEN Err("New prerelease must be further than old prerelease.")
                ELSE LET r == with_prerelease(v, new_prerelease)
                     IN  IF r.tag = "Ok" THEN with_metadata(r.ver, metadata) ELSE r

draft_finalize_release(v, metadata) ==
    IF ~is_prerelease(v)
    THEN Err("Can only finalize release from a prerelease version.")
    ELSE LET r == clear_prerelease(v)
         IN  IF r.tag = "Ok" THEN with_metadata(r.ver, metadata) ELSE r

\* the version line bumped without a look at the state
draft_bump_release_unguarded(v, level, metadata) ==
    LET r == bump_level(v, level)
    IN  IF r.tag = "Ok" THEN with_metadata(r.ver, metadata) ELSE r

draft_bump_release(v, level, metadata) ==
    IF is_prerelease(v)
    THEN Err("Cannot bump version line of a pre-release version.")
    ELSE LET r == bump_level(v, level)
         IN  IF r.tag = "Ok" THEN with_metadata(r.ver, metadata) ELSE r

\* SemanticVersion::apply of the draft: the method of the request's variant
draft_apply(v, t) ==
    CASE t.kind = "StartPrerelease" -> draft_start_prerelease(v, t.level, t.pre, t.metadata)
      [] t.kind = "IncrementPrerelease" -> draft_increment_prerelease(v, t.metadata)
      [] t.kind = "TransitionPrerelease" -> draft_transition_prerelease(v, t.pre, t.metadata)
      [] t.kind = "FinalizeRelease" -> draft_finalize_release(v, t.metadata)
      [] t.kind = "BumpRelease" -> draft_bump_release(v, t.level, t.metadata)

---------------------------------------------------------------------------
(* The engine as a state machine: the caller constructs the version from   *)
(* the manifest's Version, applies a request to it, and takes the outcome: *)
(* the next version becomes the package's version, a failure leaves it.    *)

\* prerelease identifiers a request may carry: empty, plain, numeric, dotted, with a space
PreIdents == {<<>>, <<"a">>, <<"b">>, <<"1">>, <<"a", ".", "b">>, <<"a", " ">>}

\* build metadata a request may carry: none, empty, valid, malformed
Metadatas == {None, Some(<<>>), Some(<<"x">>), Some(<<"x", " ">>)}

\* prerelease texts cargo's Version may hold: ident.n, and shapes try_from rejects
VersionPres ==
    {<<>>, <<"a">>, <<"a", ".", "b">>, <<"a", ".", "1", ".", "1">>}
    \cup {id \o <<".">> \o ToDec(n) : id \in {<<"a">>, <<"b">>}, n \in 0..(U64_MAX + 1)}

Versions ==
    {MkVersion(ma, mi, pa, pre, b) :
        ma \in U64, mi \in U64, pa \in U64, pre \in VersionPres, b \in {<<>>, <<"x">>}}

BumpIdle ==
    /\ meta = <<>>
    /\ manifest = <<>>
    /\ deps = <<>>
    /\ pkgs = <<>>
    /\ workspace = FALSE
    /\ dry_run = FALSE
    /\ no_propagate = FALSE
    /\ args = NoInput
    /\ target = NoTarget
    /\ pc = "idle"
    /\ idx = 0
    /\ updated = <<>>
    /\ written = {}
    /\ propagated = {}
    /\ output = <<>>
    /\ result = "none"

CurrentIdle ==
    /\ selection = NoSelection
    /\ repr = NoRepr

Init ==
    /\ overflow_checks \in BOOLEAN
    /\ CurrentIdle
    /\ cur = NoVersion
    /\ last = NoCall
    /\ phase = "new"
    /\ version_text = <<>>
    /\ BumpIdle

\* package.version.clone().try_into() on the Version read from the manifest
TryFrom(val) ==
    /\ phase = "new"
    /\ last' = Call("try_from", val, NoInput, try_from(val))
    /\ phase' = "returned"
    /\ UNCHANGED <<cur, version_text, overflow_checks, bumpVars, selection, repr>>

\* curr.apply(transition)
Apply(t) ==
    /\ phase = "ready"
    /\ last' = Call("apply", cur, t, apply(cur, t))
    /\ phase' = "returned"
    /\ UNCHANGED <<cur, version_text, overflow_checks, bumpVars, selection, repr>>

Construct == \E val \in Versions : TryFrom(val)

StartPrerelease ==
    \E l \in Levels, p \in PreIdents, m \in Metadatas : Apply(MkInput("StartPrerelease", l, p, m))

IncrementPrerelease ==
    \E m \in Metadatas : Apply(MkInput("IncrementPrerelease", "-", <<>>, m))

TransitionPrerelease ==
    \E p \in PreIdents, m \in Metadatas : Apply(MkInput("TransitionPrerelease", "-", p, m))

FinalizeRelease ==
    \E m \in Metadatas : Apply(MkInput("FinalizeRelease", "-", <<>>, m))

BumpRelease ==
    \E l \in Levels, m \in Metadatas : Apply(MkInput("BumpRelease", l, <<>>, m))

\* the caller takes the outcome: an Ok version becomes the package's version;
\* on an error or a panic the run ends and the version stays what it was
Take ==
    /\ phase = "returned"
    /\ cur' = IF last.out.tag = "Ok" THEN last.out.ver ELSE cur
    /\ phase' = IF last.out.tag # "Ok" /\ last.op = "try_from" THEN "new" ELSE "ready"
    /\ last' = NoCall
    /\ UNCHANGED <<version_text, overflow_checks, bumpVars, selection, repr>>

Next ==
    \/ Construct
    \/ StartPrerelease
    \/ IncrementPrerelease
    \/ TransitionPrerelease
    \/ FinalizeRelease
    \/ BumpRelease
    \/ Take

Spec == Init /\ [][Next]_vars

\* the requests of the five variants
SemverTransitions ==
    {MkInput("StartPrerelease", l, p, m) : l \in Levels, p \in PreIdents, m \in Metadatas}
    \cup {MkInput("IncrementPrerelease", "-", <<>>, m) : m \in Metadatas}
    \cup {MkInput("TransitionPrerelease", "-", p, m) : p \in PreIdents, m \in Metadatas}
    \cup {MkInput("FinalizeRelease", "-", <<>>, m) : m \in Metadatas}
    \cup {MkInput("BumpRelease", l, <<>>, m) : l \in Levels, m \in Metadatas}

\* curr.apply(transition) of the draft
DraftApply ==
    /\ phase = "ready"
    /\ \E t \in SemverTransitions : last' = Call("draft_apply", cur, t, draft_apply(cur, t))
    /\ phase' = "returned"
    /\ UNCHANGED <<cur, version_text, overflow_checks, bumpVars, selection, repr>>

DraftNext ==
    \/ Construct
    \/ DraftApply
    \/ Take

\* the draft engine in the place of the grammar-table engine
DraftSpec == Init /\ [][DraftNext]_vars

---------------------------------------------------------------------------
(* cli/mod.rs: the bump command over a workspace.                          *)

NPkgs == 2

Pkgs == 1..NPkgs

\* impl Display for SemanticVersion: MAJOR.MINOR.PATCH[-PRE][+BUILD]
to_string(v) ==
    ToDec(v.major) \o <<".">> \o ToDec(v.minor) \o <<".">> \o ToDec(v.patch)
        \o (IF v.pre = <<>> THEN <<>> ELSE <<"-">> \o v.pre)
        \o (IF v.build = <<>> THEN <<>> ELSE <<"+">> \o v.build)

\* versions the packages of the workspace start with: a release, a prerelease,
\* and a prerelease try_from rejects
BumpVersions ==
    {MkVersion(1, 0, 0, <<>>, <<>>), MkVersion(1, 0, 0, <<"a", ".", "1">>, <<>>),
     MkVersion(1, 0, 0, <<"a">>, <<>>)}

\* impl From<ReleaseLevel> for semantic_version::ReleaseLevel
ReleaseLevelFrom(val) ==
    CASE val = "patch" -> "Patch"
      [] val = "minor" -> "Minor"
      [] val = "major" -> "Major"

\* `prerelease` without PRE read as a transition to the empty identifier
SemverTransitionFrom_never_increments(t) ==
    CASE t.subcommand = "prerelease" ->
            MkInput("TransitionPrerelease", "-", t.cli_pre.text, t.cli_metadata)
      [] t.subcommand = "release" -> MkInput("FinalizeRelease", "-", <<>>, t.cli_metadata)
      [] t.subcommand = "version" /\ t.cli_pre.some ->
            MkInput("StartPrerelease", ReleaseLevelFrom(t.cli_level), t.cli_pre.text,
                    t.cli_metadata)
      [] t.subcommand = "version" /\ ~t.cli_pre.some ->
            MkInput("BumpRelease", ReleaseLevelFrom(t.cli_level), <<>>, t.cli_metadata)

\* impl From<BumpArgs> for SemverTransition
SemverTransitionFrom(t) ==
    CASE t.subcommand = "prerelease" /\ t.cli_pre.some ->
            MkInput("TransitionPrerelease", "-", t.cli_pre.text, t.cli_metadata)
      [] t.subcommand = "prerelease" /\ ~t.cli_pre.some ->
            MkInput("IncrementPrerelease", "-", <<>>, t.cli_metadata)
      [] t.subcommand = "release" -> MkInput("FinalizeRelease", "-", <<>>, t.cli_metadata)
      [] t.subcommand = "version" /\ t.cli_pre.some ->
            MkInput("StartPrerelease", ReleaseLevelFrom(t.cli_level), t.cli_pre.text,
                    t.cli_metadata)
      [] t.subcommand = "version" /\ ~t.cli_pre.some ->
            MkInput("BumpRelease", ReleaseLevelFrom(t.cli_level), <<>>, t.cli_metadata)

\* the command lines given: `version patch`, `release --metadata x`,
\* `release --metadata "x "`, `prerelease a`, `version minor b`, `version minor ""`,
\* `prerelease b`, `prerelease`
VersionBumps ==
    {MkTarget("version", "patch", None, None),
     MkTarget("release", "-", None, Some(<<"x">>)),
     MkTarget("release", "-", None, Some(<<"x", " ">>)),
     MkTarget("prerelease", "-", Some(<<"a">>), None),
     MkTarget("version", "minor", Some(<<"b">>), None),
     MkTarget("version", "minor", Some(<<>>), None),
     MkTarget("prerelease", "-", Some(<<"b">>), None),
     MkTarget("prerelease", "-", None, None)}

\* the requests the command line is given
BumpInputs == {SemverTransitionFrom(t) : t \in VersionBumps}

\* how a manifest writes a dependency: not at all, as a [dependencies.name] table
\* with a path, as an inline table with a path, or as a registry requirement
DepHows == {"none", "table-path", "inline-path", "registry"}

\* the outcomes of select_packages: every package once, in some order
RECURSIVE Orders(_)
Orders(S) ==
    IF S = {} THEN {<<>>}
    ELSE UNION {{<<x>> \o o : o \in Orders(S \ {x})} : x \in S}

Selections == UNION {Orders(S) : S \in (SUBSET Pkgs) \ {{}}}

\* metadata.all_packages(): the packages of the repository, in metadata order
all_packages == [i \in Pkgs |-> i]

\* package p depends on package p - 1 (if any), written as `how`
DepsOf(hows, m) ==
    [p \in Pkgs |->
        [d \in Pkgs |->
            IF d = p - 1 THEN MkDep(hows[p], to_string(m[d])) ELSE MkDep("none", <<>>)]]

EngineIdle ==
    /\ cur = NoVersion
    /\ last = NoCall
    /\ phase = "new"
    /\ version_text = <<>>

\* bump up to phase 1: the packages are selected, nothing is computed or written
BumpInit ==
    /\ overflow_checks \in BOOLEAN
    /\ CurrentIdle
    /\ EngineIdle
    /\ meta \in [Pkgs -> BumpVersions]
    /\ manifest = [p \in Pkgs |-> to_string(meta[p])]
    /\ \E hows \in [Pkgs -> DepHows] :
          /\ hows[1] = "none"
          /\ deps = DepsOf(hows, meta)
    /\ workspace \in BOOLEAN
    /\ pkgs \in (IF workspace THEN {all_packages} ELSE Selections)
    /\ dry_run \in BOOLEAN
    /\ no_propagate \in BOOLEAN
    /\ target \in VersionBumps
    /\ args = SemverTransitionFrom(target)
    /\ pc = "phase1"
    /\ idx = 1
    /\ updated = <<>>
    /\ written = {}
    /\ propagated = {}
    /\ output = <<>>
    /\ result = "none"

\* what every report line of the run starts with
prefix == IF dry_run THEN "[DRY RUN] " ELSE ""

\* the failure noted and the loop going on to the next package
Stop_and_go_on(r) ==
    /\ result' = r
    /\ idx' = idx + 1
    /\ UNCHANGED <<manifest, deps, pc, updated, written, propagated, output>>

\* the package's manifest written back before the failure is returned
Stop_after_write(r) ==
    /\ pc' = "done"
    /\ result' = r
    /\ written' = written \cup {pkgs[idx]}
    /\ UNCHANGED <<manifest, deps, idx, updated, propagated, output>>

Stop(r) ==
    /\ pc' = "done"
    /\ result' = r
    /\ UNCHANGED <<manifest, deps, idx, updated, written, propagated, output>>

\* the manifest written whatever --dry-run says
Phase1Step_ignores_dry_run ==
    /\ pc = "phase1"
    /\ idx <= Len(pkgs)
    /\ LET package == pkgs[idx]
           curr == try_from(meta[package])
           transition == SemverTransitionFrom(target)
           next == apply(curr.ver, transition)
       IN  IF curr.tag # "Ok" THEN Stop("err_construct")
           ELSE IF next.tag = "Err" THEN Stop("err_apply")
           ELSE IF next.tag = "Panic" THEN Stop("panic")
           ELSE /\ manifest' = [manifest EXCEPT ![package] = to_string(next.ver)]
                /\ written' = written \cup {package}
                /\ output' = Append(output,
                       MkLine(prefix, "package", package, 0, to_string(curr.ver), to_string(next.ver)))
                /\ updated' = [q \in DOMAIN updated \cup {package} |->
                                  IF q = package THEN next.ver ELSE updated[q]]
                /\ idx' = idx + 1
                /\ UNCHANGED <<deps, pc, propagated, result>>
    /\ UNCHANGED <<engineVars, selection, repr, overflow_checks, meta, pkgs, workspace, dry_run,
                   no_propagate, args, target>>

\* one iteration of the phase-1 loop: construct, apply, write, report, record
Phase1Step ==
    /\ pc = "phase1"
    /\ idx <= Len(pkgs)
    /\ LET package == pkgs[idx]
           curr == try_from(meta[package])
           transition == SemverTransitionFrom(target)
           next == apply(curr.ver, transition)
       IN  IF curr.tag # "Ok" THEN Stop("err_construct")
           ELSE IF next.tag = "Err" THEN Stop("err_apply")
           ELSE IF next.tag = "Panic" THEN Stop("panic")
           ELSE /\ manifest' = IF dry_run THEN manifest
                               ELSE [manifest EXCEPT ![package] = to_string(next.ver)]
                /\ written' = IF dry_run THEN written ELSE written \cup {package}
                /\ output' = Append(output,
                       MkLine(prefix, "package", package, 0, to_string(curr.ver), to_string(next.ver)))
                /\ updated' = [q \in DOMAIN updated \cup {package} |->
                                  IF q = package THEN next.ver ELSE updated[q]]
                /\ idx' = idx + 1
                /\ UNCHANGED <<deps, pc, propagated, result>>
    /\ UNCHANGED <<engineVars, selection, repr, overflow_checks, meta, pkgs, workspace, dry_run,
                   no_propagate, args, target>>

\* propagation for a single named package too
propagate_unless_disabled == ~no_propagate

\* propagation runs in workspace mode (explicit or implicit) unless --no-propagate
propagate == ~no_propagate /\ (workspace \/ Len(pkgs) > 1)

\* the end of the phase-1 loop: return, or go on to propagate
Phase1End ==
    /\ pc = "phase1"
    /\ idx > Len(pkgs)
    /\ IF propagate
       THEN /\ pc' = "phase2"
            /\ idx' = 1
            /\ UNCHANGED result
       ELSE /\ pc' = "done"
            /\ result' = "ok"
            /\ UNCHANGED idx
    /\ UNCHANGED <<engineVars, selection, repr, overflow_checks, meta, manifest, deps, pkgs, workspace,
                   dry_run, no_propagate, args, target, updated, written, propagated,
                   output>>

\* every entry on a bumped package rewritten, path or no path
Rewritten_any_entry(package) ==
    {d \in Pkgs : d \in DOMAIN updated /\ deps[package][d].how # "none"}

\* the dependency entries of a package that phase 2 rewrites: the name was bumped
\* and the entry is a table holding a path
Rewritten(package) ==
    {d \in Pkgs : d \in DOMAIN updated /\ deps[package][d].how = "table-path"}

\* the dependency lines printed by the real run only
RECURSIVE DepLines_silent_dry_run(_, _)
DepLines_silent_dry_run(package, S) ==
    IF S = {} \/ dry_run THEN <<>>
    ELSE LET d == CHOOSE x \in S : \A y \in S : x <= y
         IN  <<MkLine(prefix, "dependency", d, package, <<>>, to_string(updated[d]))>>
                 \o DepLines_silent_dry_run(package, S \ {d})

RECURSIVE DepLines(_, _)
DepLines(package, S) ==
    IF S = {} THEN <<>>
    ELSE LET d == CHOOSE x \in S : \A y \in S : x <= y
         IN  <<MkLine(prefix, "dependency", d, package, <<>>, to_string(updated[d]))>>
                 \o DepLines(package, S \ {d})

\* the package version of the document taken from cargo's metadata, read
\* before phase 1 wrote
doc_version_from_metadata(package) == to_string(meta[package])

\* the package version of the document phase 2 parses: the manifest as it is on
\* disk when the loop reaches the package
doc_version(package) == manifest[package]

\* one iteration of the phase-2 loop: read the manifest, rewrite the entries,
\* report, write the whole document back if changed
Phase2Step ==
    /\ pc = "phase2"
    /\ idx <= Len(all_packages)
    /\ LET package == all_packages[idx]
           changed == Rewritten(package) # {}
       IN  /\ output' = output \o DepLines(package, Rewritten(package))
           /\ deps' = IF changed /\ ~dry_run
                      THEN [deps EXCEPT ![package] =
                               [d \in Pkgs |->
                                   IF d \in Rewritten(package)
                                   THEN MkDep(deps[package][d].how, to_string(updated[d]))
                                   ELSE deps[package][d]]]
                      ELSE deps
           /\ manifest' = IF changed /\ ~dry_run
                          THEN [manifest EXCEPT ![package] = doc_version(package)]
                          ELSE manifest
           /\ written' = IF changed /\ ~dry_run THEN written \cup {package} ELSE written
           /\ propagated' = IF changed /\ ~dry_run THEN propagated \cup {package}
                             ELSE propagated
    /\ idx' = idx + 1
    /\ UNCHANGED <<engineVars, selection, repr, overflow_checks, meta, pkgs, workspace, dry_run,
                   no_propagate, args, target, pc, updated, result>>

Phase2End ==
    /\ pc = "phase2"
    /\ idx > Len(all_packages)
    /\ pc' = "done"
    /\ result' = "ok"
    /\ UNCHANGED <<engineVars, selection, repr, overflow_checks, meta, manifest, deps, pkgs, workspace,
                   dry_run, no_propagate, args, target, idx, updated, written, propagated,
                   output>>

BumpNext ==
    \/ Phase1Step
    \/ Phase1End
    \/ Phase2Step
    \/ Phase2End

BumpSpec == BumpInit /\ [][BumpNext]_vars

---------------------------------------------------------------------------
(* metadata.rs and cli/commands/current_version.rs: the selection of the   *)
(* packages, and the single version of a selection.                        *)

MaxNames == 2

\* self.0.packages: the packages of the metadata, named by their position
packages == [i \in Pkgs |-> i]

\* self.0.packages filtered by membership of the workspace
WorkspaceMembers(members) == SelectSeq(packages, LAMBDA p : p \in members)

\* --workspace taking precedence over the names given
select_packages_workspace_wins(ws, names, members, root) ==
    CASE ws -> SelOk(WorkspaceMembers(members))
      [] ~ws /\ names # <<>> ->
            IF \E k \in 1..Len(names) : names[k] \notin Pkgs
            THEN SelErr("package not found")
            ELSE SelOk(names)
      [] ~ws /\ names = <<>> ->
            IF root # 0 THEN SelOk(<<root>>) ELSE SelOk(WorkspaceMembers(members))

\* Metadata::select_packages
select_packages(ws, names, members, root) ==
    CASE ws /\ names # <<>> -> SelErr("cannot use --workspace with --package")
      [] ws /\ names = <<>> -> SelOk(WorkspaceMembers(members))
      [] ~ws /\ names # <<>> ->
            IF \E k \in 1..Len(names) : names[k] \notin Pkgs
            THEN SelErr("package not found")
            ELSE SelOk(names)
      [] ~ws /\ names = <<>> ->
            IF root # 0 THEN SelOk(<<root>>) ELSE SelOk(WorkspaceMembers(members))

\* the first version returned without looking at the others
select_single_version_first(versions) ==
    IF versions = <<>> THEN Err("No packages found") ELSE Ok(versions[1])

\* utils::select_single_version: the version all the given versions agree on
select_single_version(versions) ==
    IF versions = <<>> THEN Err("No packages found")
    ELSE IF \E k \in 1..Len(versions) : versions[k] # versions[1]
    THEN Err("different versions")
    ELSE Ok(versions[1])

\* the --package lists given: names of packages and a name no package has
NameLists == UNION {[1..n -> 1..(NPkgs + 1)] : n \in 0..MaxNames}

SelectVersions == {MkVersion(1, 0, 0, <<>>, <<>>), MkVersion(1, 1, 0, <<>>, <<>>)}

SelectInit ==
    /\ overflow_checks \in BOOLEAN
    /\ EngineIdle
    /\ CurrentIdle
    /\ meta \in [Pkgs -> SelectVersions]
    /\ manifest = <<>>
    /\ deps = <<>>
    /\ pkgs = <<>>
    /\ workspace = FALSE
    /\ dry_run = FALSE
    /\ no_propagate = FALSE
    /\ args = NoInput
    /\ target = NoTarget
    /\ pc = "idle"
    /\ idx = 0
    /\ updated = <<>>
    /\ written = {}
    /\ propagated = {}
    /\ output = <<>>
    /\ result = "none"

\* metadata.select_packages(global.workspace, global.package.as_slice())?
SelectPackages ==
    /\ pc = "idle"
    /\ \E ws \in BOOLEAN, names \in NameLists, members \in SUBSET Pkgs :
          \E root \in {0} \cup members :
             LET out == select_packages(ws, names, members, root)
             IN  /\ selection' = MkSelection(ws, names, members, root, out)
                 /\ workspace' = ws
                 /\ pkgs' = out.list
                 /\ pc' = IF out.selected THEN "selected" ELSE "done"
                 /\ result' = IF out.selected THEN result ELSE "err_select"
    /\ UNCHANGED <<engineVars, repr, overflow_checks, meta, manifest, deps, dry_run,
                   no_propagate, args, target, idx, updated, written, propagated, output>>

\* select_single_version(packages.iter().map(|p| p.version.clone()))?
SingleVersion ==
    /\ pc = "selected"
    /\ LET out == select_single_version([k \in 1..Len(pkgs) |-> meta[pkgs[k]]])
       IN  /\ last' = Call("select_single_version", NoVersion, NoInput, out)
           /\ result' = IF out.tag = "Ok" THEN "ok" ELSE "err_version"
    /\ pc' = "done"
    /\ UNCHANGED <<cur, phase, version_text, selection, repr, overflow_checks, meta,
                   manifest, deps, pkgs, workspace, dry_run, no_propagate, args, target, idx,
                   updated, written, propagated, output>>

SelectNext ==
    \/ SelectPackages
    \/ SingleVersion

SelectSpec == SelectInit /\ [][SelectNext]_vars

---------------------------------------------------------------------------
(* The methods of SemanticVersion called on their own, on versions parsed  *)
(* from text: semver's Version::parse, then try_from.                      *)

\* position of the first c in s, 0 when there is none
IndexOf(s, c) ==
    IF \E i \in 1..Len(s) : s[i] = c
    THEN CHOOSE i \in 1..Len(s) : s[i] = c /\ \A j \in 1..(i - 1) : s[j] # c
    ELSE 0

\* a numeric component of MAJOR.MINOR.PATCH: digits, no leading zero, within u64
NumericOk(s) ==
    /\ s # <<>>
    /\ AllDigits(s)
    /\ Len(s) > 1 => s[1] # "0"
    /\ DecVal(s) <= U64_MAX

\* semver::Version::parse: MAJOR.MINOR.PATCH, then `-` and a non-empty prerelease,
\* then `+` and non-empty build metadata
SemverParse(s) ==
    LET plus == IndexOf(s, "+")
        head == IF plus = 0 THEN s ELSE SubSeq(s, 1, plus - 1)
        bd   == IF plus = 0 THEN <<>> ELSE SubSeq(s, plus + 1, Len(s))
        dash == IndexOf(head, "-")
        core == IF dash = 0 THEN head ELSE SubSeq(head, 1, dash - 1)
        pr   == IF dash = 0 THEN <<>> ELSE SubSeq(head, dash + 1, Len(head))
        nums == Split(core)
    IN  IF /\ Len(nums) = 3
           /\ \A k \in 1..Len(nums) : NumericOk(nums[k])
           /\ dash # 0 => pr # <<>>
           /\ SemverIdentifierOk(pr, TRUE)
           /\ plus # 0 => bd # <<>>
           /\ SemverIdentifierOk(bd, FALSE)
        THEN Ok(MkVersion(DecVal(nums[1]), DecVal(nums[2]), DecVal(nums[3]), pr, bd))
        ELSE Err("semver")

\* SemanticVersion::try_from(Version::parse(s)), the failures returned
sv(s) == IF SemverParse(s).tag = "Ok" THEN try_from(SemverParse(s).ver) ELSE SemverParse(s)

\* texts that are no version, or no canonical one
OddTexts ==
    {<<>>, <<"1", ".", "0">>, <<"0", "1", ".", "0", ".", "0">>,
     <<"1", ".", "0", ".", "0", "-">>, <<"1", ".", "0", ".", "0", "+">>,
     <<"1", ".", "0", ".", "0", "-", "a", ".", "0", "1">>,
     <<"1", ".", "0", ".", "0", "-", "a", ".", "1", "+", "x", "-", "0", "1">>,
     <<"1", ".", "0", ".", "0", " ">>}

\* the texts given to parse: every Version's rendering, and the odd ones
VersionTexts == {to_string(v) : v \in Versions} \cup OddTexts

Parse(s) ==
    /\ phase = "new"
    /\ version_text' = s
    /\ last' = Call("parse", NoVersion, NoInput, sv(s))
    /\ phase' = "returned"
    /\ UNCHANGED <<cur, overflow_checks, bumpVars, selection, repr>>

ParseText == \E s \in VersionTexts : Parse(s)

\* a method of the version in hand, called on its own
Method(op, t, out) ==
    /\ phase = "ready"
    /\ last' = Call(op, cur, t, out)
    /\ phase' = "returned"
    /\ UNCHANGED <<cur, version_text, overflow_checks, bumpVars, selection, repr>>

BumpLevel == \E l \in Levels : Method("bump_level", MkInput("-", l, <<>>, None), bump_level(cur, l))

ClearPrerelease == Method("clear_prerelease", NoInput, clear_prerelease(cur))

\* Option<u64> of a parsed prerelease: the counter when there is one
IterationOf(cp) == IF cp.tag = "Some" THEN U64Ok(cp.parsed.iteration) ELSE U64Fail

\* Option<String> of a parsed prerelease: the identifier when there is one (the
\* match of try_from names Some and None only)
IdentOf(cp) == IF cp.tag = "Some" THEN Some(cp.parsed.ident) ELSE None

\* is_prerelease read off the presence of build metadata
CurrentVersionRepr_build_flag(val) ==
    MkRepr(to_string(val), val.major, val.minor, val.patch, IdentOf(prerelease(val)),
           IterationOf(prerelease(val)), build(val), val.build # <<>>)

\* impl TryFrom<SemanticVersion> for CurrentVersionRepr
CurrentVersionRepr(val) ==
    MkRepr(to_string(val), val.major, val.minor, val.patch, IdentOf(prerelease(val)),
           IterationOf(prerelease(val)), build(val), is_prerelease(val))

\* CurrentVersionRepr::try_from(version) on the version in hand
Repr ==
    /\ phase = "ready"
    /\ repr' = CurrentVersionRepr(cur)
    /\ last' = Call("repr", cur, NoInput, Ok(cur))
    /\ phase' = "returned"
    /\ UNCHANGED <<cur, version_text, overflow_checks, bumpVars, selection>>

\* the version rendered, and the rendering parsed back
Render ==
    /\ phase = "ready"
    /\ version_text' = to_string(cur)
    /\ last' = Call("to_string", cur, NoInput, sv(to_string(cur)))
    /\ phase' = "returned"
    /\ UNCHANGED <<cur, overflow_checks, bumpVars, selection, repr>>

\* the caller takes the outcome: a new version replaces the one in hand
FnTake ==
    /\ phase = "returned"
    /\ cur' = IF last.out.tag = "Ok" THEN last.out.ver ELSE cur
    /\ phase' = IF last.out.tag # "Ok" /\ last.op = "parse" THEN "new" ELSE "ready"
    /\ last' = NoCall
    /\ version_text' = <<>>
    /\ repr' = NoRepr
    /\ UNCHANGED <<overflow_checks, bumpVars, selection>>

FnNext ==
    \/ ParseText
    \/ BumpLevel
    \/ ClearPrerelease
    \/ Render
    \/ Repr
    \/ FnTake

FnSpec == Init /\ [][FnNext]_vars

---------------------------------------------------------------------------
(* Claims about the engine, over the call whose outcome is being returned. *)

Applied == phase = "returned" /\ last.op = "apply"

AppliedKind(k) == Applied /\ last.req.kind = k

FromState == IF last.recv.pre = <<>> THEN "Release" ELSE "Prerelease"

Refused == last.out.tag = "Err" /\ last.out.err \in TransitionErrors

LegalPairs ==
    {<<"Release", "StartPrerelease">>, <<"Release", "BumpRelease">>,
     <<"Prerelease", "IncrementPrerelease">>, <<"Prerelease", "TransitionPrerelease">>,
     <<"Prerelease", "FinalizeRelease">>}

IllegalPairs == ({"Release", "Prerelease"} \X Kinds) \ LegalPairs

\* C1: apply passes the legality check exactly for the five legal (state, kind)
\* pairs and returns a TransitionError for each of the other five; every pair of
\* the 2 x 5 matrix is decided one way or the other.
C1_GrammarDecidesEveryPair ==
    Applied =>
        /\ <<FromState, last.req.kind>> \in LegalPairs \cup IllegalPairs
        /\ <<FromState, last.req.kind>> \in LegalPairs <=> ~Refused
        /\ <<FromState, last.req.kind>> \in IllegalPairs <=> Refused

C1_Witness ==
    /\ AppliedKind("FinalizeRelease")
    /\ FromState = "Prerelease"
    /\ last.out.tag = "Ok"

ExpectedError(from, k) ==
    CASE from = "Prerelease" /\ k = "StartPrerelease" -> "StartPrereleaseFromPrerelease"
      [] from = "Release" /\ k = "IncrementPrerelease" -> "IncrementPrereleaseFromRelease"
      [] from = "Release" /\ k = "TransitionPrerelease" -> "TransitionPrereleaseFromRelease"
      [] from = "Release" /\ k = "FinalizeRelease" -> "FinalizeReleaseFromRelease"
      [] from = "Prerelease" /\ k = "BumpRelease" -> "BumpReleaseFromPrerelease"

\* C2: each illegal (state, kind) pair yields its own TransitionError variant,
\* different from that of every other illegal pair, whatever level, pre_ident and
\* build the request carries (valid or not).
C2_IllegalPairHasItsOwnError ==
    /\ Applied /\ <<FromState, last.req.kind>> \in IllegalPairs
          => last.out = Err(ExpectedError(FromState, last.req.kind))
    /\ \A p \in IllegalPairs, q \in IllegalPairs :
          p # q => validate(p[1], p[2]) # validate(q[1], q[2])

C2_Witness ==
    /\ AppliedKind("BumpRelease")
    /\ FromState = "Prerelease"
    /\ last.req.metadata = Some(<<"x", " ">>)
    /\ last.out = Err("BumpReleaseFromPrerelease")

\* C4: apply on every constructed version and every request ends by returning a
\* new version or an error value; it never aborts the program.
C4_ApplyNeverAborts == Applied => last.out.tag \in {"Ok", "Err"}

\* the component that bump_level(level) increments
Component(v, level) ==
    CASE level = "Major" -> v.major
      [] level = "Minor" -> v.minor
      [] level = "Patch" -> v.patch

Iteration(v) == PrereleaseParse(v.pre).iteration

\* a request whose pre_ident (if its kind has one) makes a prerelease semver accepts
ValidPreIdent(t) ==
    t.kind \in {"StartPrerelease", "TransitionPrerelease"}
        => t.pre # <<>> /\ SemverIdentifierOk(t.pre \o <<".", "1">>, TRUE)

\* C5: a bump of a component at the integer maximum, and an increment of an
\* iteration at the maximum, fail with an error value; no transition returns a
\* version whose component or iteration has wrapped around to a smaller value.
C5_OverflowIsAnError ==
    /\ ( /\ Applied
         /\ last.req.kind \in {"StartPrerelease", "BumpRelease"}
         /\ FromState = "Release"
         /\ ValidPreIdent(last.req) )
          => /\ Component(last.recv, last.req.level) = U64_MAX => last.out.tag = "Err"
             /\ last.out.tag = "Ok" =>
                   Component(last.out.ver, last.req.level) > Component(last.recv, last.req.level)
    /\ (AppliedKind("IncrementPrerelease") /\ prerelease(last.recv).tag = "Some")
          => /\ Iteration(last.recv) = U64_MAX => last.out.tag = "Err"
             /\ last.out.tag = "Ok" => Iteration(last.out.ver) > Iteration(last.recv)

\* a prerelease text of exactly two dot-separated components, the second a number
TwoComponents(pre) ==
    /\ Len(Split(pre)) = 2
    /\ Split(pre)[2] # <<>>
    /\ AllDigits(Split(pre)[2])

\* C6: after any sequence of successful transitions from a constructed version,
\* the version is a Release (no prerelease) or a Prerelease whose prerelease is
\* ident.iteration with a numeric iteration, so prerelease() does not fail on it.
C6_ReachableVersionIsWellFormed ==
    phase # "new" =>
        /\ cur.pre # <<>> => TwoComponents(cur.pre)
        /\ prerelease(cur).tag # "Err"

NotAdvancing == Err("New prerelease must be further than old prerelease.")

\* the build text a request asks for (empty for None)
BuildOf(t) == t.metadata.text

ValidBuild(t) == ~t.metadata.some \/ SemverIdentifierOk(t.metadata.text, FALSE)

SameLine(v, w) == v.major = w.major /\ v.minor = w.minor /\ v.patch = w.patch

\* C7: TransitionPrerelease on a Prerelease version, with a valid build, succeeds if
\* and only if pre_ident.1 is strictly greater than the current prerelease under
\* the semver prerelease comparator; on success the result has prerelease
\* pre_ident.1 and unchanged major, minor, patch; otherwise it fails with the
\* not-advancing error.
C7_TransitionSucceedsIffAdvancing ==
    (AppliedKind("TransitionPrerelease") /\ FromState = "Prerelease" /\ ValidBuild(last.req))
        => /\ last.out.tag = "Ok" <=> PreCmp(last.req.pre \o <<".", "1">>, last.recv.pre) > 0
           /\ last.out.tag = "Ok" =>
                 /\ last.out.ver.pre = last.req.pre \o <<".", "1">>
                 /\ SameLine(last.out.ver, last.recv)
           /\ last.out.tag # "Ok" => last.out = NotAdvancing

\* the receiver's prerelease identifier, when its prerelease is ident.iteration
Ident(v) == PrereleaseParse(v.pre).ident

\* a TransitionPrerelease to a well-formed target, on a version whose prerelease parses
TransitionOnIdent ==
    /\ AppliedKind("TransitionPrerelease")
    /\ prerelease(last.recv).tag = "Some"
    /\ ValidPreIdent(last.req)

\* C8 as stated: a TransitionPrerelease whose target identifier is the same as the
\* current one, or lower, is rejected for every current iteration.
C8_SameOrLowerAlwaysRejected ==
    (TransitionOnIdent /\ PreCmp(last.req.pre, Ident(last.recv)) <= 0)
        => last.out.tag = "Err"

\* C8: a TransitionPrerelease whose target identifier is lower than the current one
\* is rejected for every current iteration, and one whose target is the same
\* identifier is rejected whenever the current iteration is at least 1; from
\* iteration 0 the same identifier is accepted and gives ident.1.
C8_SameOrLowerRejectedFromIterationOne ==
    /\ ( /\ TransitionOnIdent
         /\ \/ PreCmp(last.req.pre, Ident(last.recv)) < 0
            \/ (last.req.pre = Ident(last.recv) /\ Iteration(last.recv) >= 1) )
          => last.out = NotAdvancing
    /\ ( /\ TransitionOnIdent
         /\ last.req.pre = Ident(last.recv)
         /\ Iteration(last.recv) = 0
         /\ ValidBuild(last.req) )
          => /\ last.out.tag = "Ok"
             /\ last.out.ver.pre = Ident(last.recv) \o <<".", "1">>

C8_Witness ==
    /\ AppliedKind("TransitionPrerelease")
    /\ last.recv.pre = <<"b", ".", "2">>
    /\ last.req.pre = <<"b">>
    /\ last.out = NotAdvancing

\* C9: StartPrerelease{level, pre_ident, build} on a Release version returns the
\* version whose major, minor, patch are those of bump_level(level), whose
\* prerelease is pre_ident with iteration 1, and whose build is the request's.
C9_StartPrereleaseResult ==
    (AppliedKind("StartPrerelease") /\ FromState = "Release" /\ last.out.tag = "Ok")
        => /\ bump_level(last.recv, last.req.level).tag = "Ok"
           /\ SameLine(last.out.ver, bump_level(last.recv, last.req.level).ver)
           /\ last.out.ver.pre = last.req.pre \o <<".", "1">>
           /\ last.out.ver.build = BuildOf(last.req)

C9_Witness ==
    /\ AppliedKind("StartPrerelease")
    /\ last.recv = MkVersion(1, 1, 1, <<>>, <<"x">>)
    /\ last.req = MkInput("StartPrerelease", "Minor", <<"a">>, None)
    /\ last.out = Ok(MkVersion(1, 2, 0, <<"a", ".", "1">>, <<>>))

\* C10: IncrementPrerelease{build} on a Prerelease version ident.n returns the
\* version with the same ident, iteration n + 1, unchanged major, minor, patch,
\* and build equal to the request's.
C10_IncrementPrereleaseResult ==
    ( /\ AppliedKind("IncrementPrerelease")
      /\ prerelease(last.recv).tag = "Some"
      /\ last.out.tag = "Ok" )
        => /\ last.out.ver.pre = Ident(last.recv) \o <<".">> \o ToDec(Iteration(last.recv) + 1)
           /\ SameLine(last.out.ver, last.recv)
           /\ last.out.ver.build = BuildOf(last.req)

MalformedBuild == Err("metadata validated by semver")

\* C11: FinalizeRelease{build} on a Prerelease version returns the Release version
\* with the same major, minor and patch, no prerelease, and build equal to the
\* request's build; it fails only on a build semver does not accept.
C11_FinalizeReleaseResult ==
    (AppliedKind("FinalizeRelease") /\ FromState = "Prerelease")
        => IF ValidBuild(last.req)
           THEN last.out = Ok(MkVersion(last.recv.major, last.recv.minor, last.recv.patch,
                                        <<>>, BuildOf(last.req)))
           ELSE last.out = MalformedBuild

C11_Witness ==
    /\ AppliedKind("FinalizeRelease")
    /\ last.recv = MkVersion(1, 2, 0, <<"a", ".", "2">>, <<>>)
    /\ last.req.metadata = Some(<<"x">>)
    /\ last.out = Ok(MkVersion(1, 2, 0, <<>>, <<"x">>))

\* C12: BumpRelease{level, build} on a Release version returns the Release version
\* whose major, minor, patch are those of bump_level(level) and whose build is the
\* request's build.
C12_BumpReleaseResult ==
    (AppliedKind("BumpRelease") /\ FromState = "Release" /\ last.out.tag = "Ok")
        => /\ bump_level(last.recv, last.req.level).tag = "Ok"
           /\ SameLine(last.out.ver, bump_level(last.recv, last.req.level).ver)
           /\ last.out.ver.pre = <<>>
           /\ last.out.ver.build = BuildOf(last.req)

C12_Witness ==
    /\ AppliedKind("BumpRelease")
    /\ last.recv = MkVersion(1, 1, 1, <<>>, <<>>)
    /\ last.req = MkInput("BumpRelease", "Major", <<>>, Some(<<"x">>))
    /\ last.out = Ok(MkVersion(2, 0, 0, <<>>, <<"x">>))

\* C13: for every transition kind, the build metadata of a successful result is
\* the request's build and nothing else: no build in the request clears the build
\* the version had, a build in the request replaces it.
C13_BuildIsReplaced ==
    (Applied /\ last.out.tag = "Ok")
        => /\ last.out.ver.build = BuildOf(last.req)
           /\ ~last.req.metadata.some => last.out.ver.build = <<>>

C13_Witness ==
    /\ AppliedKind("IncrementPrerelease")
    /\ last.recv.build = <<"x">>
    /\ last.req.metadata = None
    /\ last.out.tag = "Ok"
    /\ last.out.ver.build = <<>>

\* C17: constructing a SemanticVersion fails if and only if a prerelease is present
\* and is not exactly two dot-separated components whose second is an unsigned
\* integer literal; a version without prerelease is always accepted.
C17_ConstructFailsIffMalformed ==
    (phase = "returned" /\ last.op = "try_from")
        => (last.out.tag = "Err" <=> (last.recv.pre # <<>> /\ ~TwoComponents(last.recv.pre)))

---------------------------------------------------------------------------
(* Claims about the methods called on their own.                           *)

Called(op) == phase = "returned" /\ last.op = op

\* the triple (major, minor, patch)
Triple(v) == <<v.major, v.minor, v.patch>>

\* C14: bump_level gives (major+1, 0, 0) for Major, (major, minor+1, 0) for Minor
\* and (major, minor, patch+1) for Patch, for every version and level whose
\* component is short of the integer maximum.
C14_BumpLevelComputes ==
    (Called("bump_level") /\ Component(last.recv, last.req.level) < U64_MAX)
        => /\ last.out.tag = "Ok"
           /\ Triple(last.out.ver) =
                 CASE last.req.level = "Major" -> <<last.recv.major + 1, 0, 0>>
                   [] last.req.level = "Minor" -> <<last.recv.major, last.recv.minor + 1, 0>>
                   [] last.req.level = "Patch" ->
                         <<last.recv.major, last.recv.minor, last.recv.patch + 1>>

C14_Witness ==
    /\ Called("bump_level")
    /\ Triple(last.recv) = <<1, 1, 1>>
    /\ last.req.level = "Minor"
    /\ last.out.tag = "Ok"
    /\ Triple(last.out.ver) = <<1, 2, 0>>

\* C15: bump_level called on its own clears the prerelease and the build metadata:
\* its result is a Release version with no build, whatever the input carried.
C15_BumpLevelClearsPrereleaseAndBuild ==
    (Called("bump_level") /\ last.out.tag = "Ok")
        => last.out.ver.pre = <<>> /\ last.out.ver.build = <<>>

\* semver precedence of two versions: -1, 0, 1 (build metadata has no part in it)
VersionCmp(v, w) ==
    CASE v.major # w.major -> IF v.major < w.major THEN -1 ELSE 1
      [] v.major = w.major /\ v.minor # w.minor -> IF v.minor < w.minor THEN -1 ELSE 1
      [] v.major = w.major /\ v.minor = w.minor /\ v.patch # w.patch ->
            IF v.patch < w.patch THEN -1 ELSE 1
      [] OTHER -> PreCmp(v.pre, w.pre)

\* C16: for every version v, Release or Prerelease, and every level, bump_level
\* gives a version strictly greater than v under semver precedence, with the
\* lower components reset to zero for Minor and Major.
C16_BumpLevelIsStrictlyGreater ==
    (Called("bump_level") /\ last.out.tag = "Ok")
        => /\ VersionCmp(last.out.ver, last.recv) > 0
           /\ last.req.level = "Major" => last.out.ver.minor = 0 /\ last.out.ver.patch = 0
           /\ last.req.level = "Minor" => last.out.ver.patch = 0

\* a valid version string: MAJOR.MINOR.PATCH[-ident.iteration][+BUILD], the
\* iteration an unsigned integer literal
ValidText(s) ==
    /\ SemverParse(s).tag = "Ok"
    /\ SemverParse(s).ver.pre # <<>> => TwoComponents(SemverParse(s).ver.pre)

\* C18: rendering and parsing round-trip: parsing the canonical string of a
\* version gives back the same version, and for every valid version string s,
\* rendering the parsed version gives s.
C18_RoundTrip ==
    /\ Called("to_string") => last.out = Ok(last.recv)
    /\ (Called("parse") /\ ValidText(version_text))
          => last.out.tag = "Ok" /\ to_string(last.out.ver) = version_text

\* C19: clear_prerelease is idempotent, applied twice it gives what it gives
\* applied once, and it changes nothing but the prerelease: major, minor, patch
\* and build are kept.
C19_ClearPrereleaseIdempotent ==
    Called("clear_prerelease")
        => /\ last.out = Ok(MkVersion(last.recv.major, last.recv.minor, last.recv.patch,
                                      <<>>, last.recv.build))
           /\ clear_prerelease(last.out.ver) = last.out

C19_Witness ==
    /\ Called("clear_prerelease")
    /\ last.recv = MkVersion(1, 0, 0, <<"a", ".", "1">>, <<"x">>)
    /\ last.out = Ok(MkVersion(1, 0, 0, <<>>, <<"x">>))

\* C28: in the machine-readable record of a valid version, is_prerelease is true
\* if and only if pre and iteration are both present; pre and iteration are the
\* prerelease's identifier and counter; major, minor, patch and build are the
\* version's components; and version is the canonical string.
C28_ReprMatchesTheVersion ==
    Called("repr")
        => /\ repr.is_prerelease <=> (repr.pre.some /\ repr.iteration.ok)
           /\ repr.pre.some <=> repr.iteration.ok
           /\ repr.is_prerelease <=> last.recv.pre # <<>>
           /\ repr.is_prerelease
                 => last.recv.pre = repr.pre.text \o <<".">> \o ToDec(repr.iteration.num)
           /\ <<repr.major, repr.minor, repr.patch>> = Triple(last.recv)
           /\ repr.build = (IF last.recv.build = <<>> THEN None ELSE Some(last.recv.build))
           /\ sv(repr.version) = Ok(last.recv)

C28_Witness ==
    /\ Called("repr")
    /\ last.recv = MkVersion(1, 2, 0, <<"b", ".", "2">>, <<"x">>)
    /\ repr = MkRepr(<<"1", ".", "2", ".", "0", "-", "b", ".", "2", "+", "x">>, 1, 2, 0,
                     Some(<<"b">>), U64Ok(2), Some(<<"x">>), TRUE)

\* C29: along any sequence of successful transitions applied through apply,
\* each resulting version is strictly greater than its predecessor under semver
\* precedence, build metadata ignored: no legal transition of any kind keeps or
\* lowers the precedence of a version.
C29_EveryTransitionRaisesPrecedence ==
    (Applied /\ last.out.tag = "Ok") => VersionCmp(last.out.ver, last.recv) > 0

\* the states a successful transition of each kind starts and ends in
StatesOfKind(k) ==
    CASE k = "StartPrerelease" -> <<"Release", "Prerelease">>
      [] k = "IncrementPrerelease" -> <<"Prerelease", "Prerelease">>
      [] k = "TransitionPrerelease" -> <<"Prerelease", "Prerelease">>
      [] k = "FinalizeRelease" -> <<"Prerelease", "Release">>
      [] k = "BumpRelease" -> <<"Release", "Release">>

\* the last dot-separated component of a prerelease text
LastComponent(pre) == Split(pre)[Len(Split(pre))]

---------------------------------------------------------------------------
(* Claims about the bump command.                                          *)

\* C3: all next versions are computed before any manifest is written, so if the
\* transition of any selected package fails, no manifest of any package has been
\* written.
C3_NothingWrittenWhenATransitionFails ==
    (pc = "done" /\ result = "err_apply") => written = {}

\* C20: a failed transition changes nothing for its package: when apply returns
\* an error (illegal pair, non-advancing prerelease, malformed build), the bump
\* command has not written that package's manifest, which still holds the version
\* apply was called on.
C20_FailedTransitionWritesNothingForItsPackage ==
    (pc = "done" /\ result = "err_apply")
        => /\ apply(try_from(meta[pkgs[idx]]).ver, args).tag = "Err"
           /\ pkgs[idx] \notin written
           /\ manifest[pkgs[idx]] = to_string(meta[pkgs[idx]])

C20_Witness ==
    /\ pc = "done"
    /\ result = "err_apply"
    /\ idx = 2
    /\ written = {pkgs[1]}
    /\ manifest[pkgs[1]] # to_string(meta[pkgs[1]])
    /\ manifest[pkgs[2]] = to_string(meta[pkgs[2]])

\* the packages the phase-1 loop has gone through without a failure
Processed == {pkgs[k] : k \in 1..(idx - 1)}

\* the version sub-field a dependency entry held when the command started
InitialDepver(p, d) == IF d = p - 1 THEN to_string(meta[d]) ELSE <<>>

Failures == {"err_construct", "err_apply", "panic"}

\* C21: after a transition failure for one package in the compute phase, no later
\* package of the batch is processed (no transition applied, no manifest written,
\* no report line emitted), no propagation takes place, and the command returns
\* that error.
C21_NothingAfterAFailure ==
    result \in Failures
        => /\ pc = "done"
           /\ idx <= Len(pkgs)
           /\ DOMAIN updated = Processed
           /\ written \subseteq Processed
           /\ Len(output) = idx - 1
           /\ \A k \in 1..Len(output) : output[k].what = "package" /\ output[k].name = pkgs[k]
           /\ \A p \in Pkgs, d \in Pkgs : deps[p][d].depver = InitialDepver(p, d)

C21_Witness ==
    /\ result = "err_apply"
    /\ pc = "done"
    /\ idx = 1
    /\ Len(pkgs) = 2
    /\ ~dry_run /\ ~no_propagate
    /\ try_from(meta[pkgs[2]]).tag = "Ok"
    /\ apply(meta[pkgs[2]], args).tag = "Ok"
    /\ deps[2][1].how = "table-path"
    /\ written = {} /\ output = <<>>

\* C22: with dry_run set, no manifest file is written in either phase, neither a
\* package version nor a dependency version, for every package selection and
\* every outcome of the transitions.
C22_DryRunWritesNothing ==
    dry_run
        => /\ written = {}
           /\ manifest = [p \in Pkgs |-> to_string(meta[p])]
           /\ \A p \in Pkgs, d \in Pkgs : deps[p][d].depver = InitialDepver(p, d)

C22_Witness ==
    /\ dry_run
    /\ pc = "done"
    /\ result = "ok"
    /\ \E k \in 1..Len(output) : output[k].what = "dependency"
    /\ written = {}

\* the next version of a selected package
NextVersion(p) == apply(try_from(meta[p]).ver, args).ver

\* the packages the command was asked to bump
Selected == {pkgs[k] : k \in 1..Len(pkgs)}

\* the lines the real run prints, from the workspace contents and the arguments
\* alone: a line per package bumped, then, when the command propagates, a line per
\* dependency entry it rewrites, package by package
RECURSIVE RealDependencyLines(_, _)
RealDependencyLines(p, S) ==
    IF S = {} THEN <<>>
    ELSE LET d == CHOOSE x \in S : \A y \in S : x <= y
         IN  <<MkLine("", "dependency", d, p, <<>>, to_string(NextVersion(d)))>>
                 \o RealDependencyLines(p, S \ {d})

RECURSIVE RealPropagationLines(_)
RealPropagationLines(n) ==
    IF n = 0 THEN <<>>
    ELSE RealPropagationLines(n - 1)
            \o RealDependencyLines(all_packages[n],
                   {d \in Selected : deps[all_packages[n]][d].how = "table-path"})

RealRunReport ==
    IF result \in Failures
    THEN [k \in 1..(idx - 1) |->
             MkLine("", "package", pkgs[k], 0, to_string(meta[pkgs[k]]),
                    to_string(NextVersion(pkgs[k])))]
    ELSE [k \in 1..Len(pkgs) |->
             MkLine("", "package", pkgs[k], 0, to_string(meta[pkgs[k]]),
                    to_string(NextVersion(pkgs[k])))]
         \o (IF propagate THEN RealPropagationLines(Len(all_packages)) ELSE <<>>)

\* a report line without the prefix of its run
Unprefixed(l) == MkLine("", l.what, l.name, l.inpkg, l.from, l.upto)

\* C23 as stated: a dry run produces the very report lines of the real run on the
\* same workspace contents and arguments, in the same order.
C23_DryRunPrintsTheSameLines == pc = "done" => output = RealRunReport

\* C23: a dry run produces the report lines of the real run on the same workspace
\* contents and arguments, package updates and dependency updates in the same
\* order, each line of the dry run after the prefix "[DRY RUN] ".
C23_DryRunPrintsTheSameLinesPrefixed ==
    pc = "done"
        => /\ [k \in 1..Len(output) |-> Unprefixed(output[k])] = RealRunReport
           /\ \A k \in 1..Len(output) :
                 output[k].prefix = IF dry_run THEN "[DRY RUN] " ELSE ""

C23_Witness ==
    /\ pc = "done"
    /\ result = "ok"
    /\ dry_run
    /\ Len(output) = 3
    /\ output[3].what = "dependency"
    /\ output[3].prefix = "[DRY RUN] "

\* a dependency entry that names a directory of the repository, however it is written
PathBased(e) == e.how \in {"table-path", "inline-path"}

\* C24: after a successful non-dry-run bump without --no-propagate, every
\* path-based dependency entry on a bumped package, in the manifest of every
\* package of the repository, records that package's new version.
C24_PathDependenciesRecordTheNewVersion ==
    (pc = "done" /\ result = "ok" /\ ~dry_run /\ ~no_propagate)
        => \A p \in Pkgs, d \in Selected :
              PathBased(deps[p][d]) => deps[p][d].depver = to_string(NextVersion(d))

C31_PropagationKeepsThePackageVersions ==
    (pc = "done" /\ result = "ok" /\ ~dry_run /\ propagate)
        => \A p \in Selected : manifest[p] = to_string(NextVersion(p))

\* both packages bumped, and the manifest of the second rewritten again for its
\* entry on the first
C31_Witness ==
    /\ pc = "done"
    /\ result = "ok"
    /\ ~dry_run
    /\ propagate
    /\ Selected = {1, 2}
    /\ propagated = {2}
    /\ meta[2] = MkVersion(1, 0, 0, <<>>, <<>>)
    /\ manifest[2] = <<"1", ".", "0", ".", "1">>
    /\ deps[2][1].depver = manifest[1]

\* the step that ends the phase-1 loop with every transition done
EndsPhase1 == pc = "phase1" /\ pc' # "phase1" /\ result' \notin Failures

LevelNamed(lv) ==
    CASE lv = "patch" -> "Patch"
      [] lv = "minor" -> "Minor"
      [] lv = "major" -> "Major"

\* the request each form of the command line stands for
RequestOf(sc, lv, pr, md) ==
    CASE sc = "prerelease" /\ pr.some -> MkInput("TransitionPrerelease", "-", pr.text, md)
      [] sc = "prerelease" /\ ~pr.some -> MkInput("IncrementPrerelease", "-", <<>>, md)
      [] sc = "release" -> MkInput("FinalizeRelease", "-", <<>>, md)
      [] sc = "version" /\ pr.some ->
            MkInput("StartPrerelease", LevelNamed(lv), pr.text, md)
      [] sc = "version" /\ ~pr.some -> MkInput("BumpRelease", LevelNamed(lv), <<>>, md)

\* C35: the bump command line maps to exactly one transition request:
\* `prerelease PRE` gives TransitionPrerelease{PRE}, `prerelease` without PRE gives
\* IncrementPrerelease, `release` gives FinalizeRelease, `version LEVEL PRE` gives
\* StartPrerelease{LEVEL, PRE}, `version LEVEL` without PRE gives
\* BumpRelease{LEVEL}; the level and the --metadata value are passed through
\* unchanged, and the same request is applied to every selected package.
C35_CommandLineGivesOneRequest ==
    LET request == RequestOf(target.subcommand, target.cli_level, target.cli_pre,
                             target.cli_metadata)
    IN  pc # "idle"
            => /\ args = request
               /\ \A k \in 1..Len(output) :
                     output[k].what = "package"
                        => /\ output[k].name = pkgs[k]
                           /\ output[k].upto
                                 = to_string(apply(try_from(meta[pkgs[k]]).ver, request).ver)
               /\ \A p \in DOMAIN updated :
                     updated[p] = apply(try_from(meta[p]).ver, request).ver

\* `prerelease` without PRE: both packages go from a.1 to a.2
C35_Witness ==
    /\ pc = "done"
    /\ result = "ok"
    /\ target = MkTarget("prerelease", "-", None, None)
    /\ Len(pkgs) = 2
    /\ Len(output) >= 2
    /\ output[1].upto = <<"1", ".", "0", ".", "0", "-", "a", ".", "2">>
    /\ output[2].upto = <<"1", ".", "0", ".", "0", "-", "a", ".", "2">>

---------------------------------------------------------------------------
(* Claims about the selection of packages.                                 *)

\* the members of a set of packages, in the order of the metadata
RECURSIVE InOrder(_)
InOrder(S) ==
    IF S = {} THEN <<>>
    ELSE LET p == CHOOSE x \in S : \A y \in S : x <= y
         IN  <<p>> \o InOrder(S \ {p})

\* C26: select_packages fails when --workspace is combined with an explicit
\* package list, and fails when an explicit name matches no package; otherwise it
\* returns one package per requested name in the order requested, all workspace
\* members for --workspace, and with neither the root package if there is one,
\* else all workspace members.
C26_SelectPackages ==
    pc # "idle"
        => LET s == selection
           IN  CASE s.flag /\ s.names # <<>> -> ~s.outcome.selected
                 [] ~s.flag /\ (\E k \in 1..Len(s.names) : s.names[k] \notin Pkgs) ->
                       ~s.outcome.selected
                 [] ~s.flag /\ s.names # <<>> /\ (\A k \in 1..Len(s.names) : s.names[k] \in Pkgs) ->
                       s.outcome = SelOk(s.names)
                 [] s.flag /\ s.names = <<>> -> s.outcome = SelOk(InOrder(s.members))
                 [] ~s.flag /\ s.names = <<>> /\ s.root # 0 -> s.outcome = SelOk(<<s.root>>)
                 [] ~s.flag /\ s.names = <<>> /\ s.root = 0 ->
                       s.outcome = SelOk(InOrder(s.members))

C26_Witness ==
    /\ pc = "selected"
    /\ ~selection.flag
    /\ selection.names = <<2, 1>>
    /\ selection.root = 1
    /\ pkgs = <<2, 1>>

\* the versions of the selected packages
SelectedVersions == [k \in 1..Len(pkgs) |-> meta[pkgs[k]]]

\* C27: selecting a single version over a set of package versions fails when the
\* set is empty ('No packages found') and when two versions in it differ
\* ('different versions'); it returns the common version exactly when the set is
\* non-empty and all its versions are equal.
C27_SingleVersion ==
    (pc = "done" /\ last.op = "select_single_version")
        => /\ pkgs = <<>> => last.out = Err("No packages found")
           /\ (\E j, k \in 1..Len(pkgs) : meta[pkgs[j]] # meta[pkgs[k]])
                 => last.out = Err("different versions")
           /\ (pkgs # <<>> /\ \A j, k \in 1..Len(pkgs) : meta[pkgs[j]] = meta[pkgs[k]])
                 => last.out = Ok(meta[pkgs[1]])

C27_Witness ==
    /\ pc = "done"
    /\ last.op = "select_single_version"
    /\ Len(pkgs) = 2
    /\ meta[pkgs[1]] # meta[pkgs[2]]
    /\ last.out = Err("different versions")

\* C33: every package returned by select_packages is a member of the workspace,
\* in each selection mode; an explicit name that matches only a package outside
\* the workspace is reported as not found and is never selected.
C33_OnlyWorkspaceMembersAreSelected ==
    (selection # NoSelection /\ selection.outcome.selected)
        => \A k \in 1..Len(selection.outcome.list) :
              selection.outcome.list[k] \in selection.members

---------------------------------------------------------------------------
(* Claims about the two drafts of the engine.                              *)

\* two outcomes that both fail, or both succeed with the same version
SameOutcome(a, b) ==
    /\ (a.tag = "Ok") <=> (b.tag = "Ok")
    /\ a.tag = "Ok" => a.ver = b.ver

\* C34: the earlier draft of the engine (per-method state checks) and the
\* grammar-table engine (validate, then apply_unchecked) are equivalent: for
\* every version and every request both succeed or both fail, and when they
\* succeed they return the same version.
C34_DraftAndGrammarEngineAgree ==
    Called("draft_apply") => SameOutcome(last.out, apply(last.recv, last.req))

\* both engines finalizing a prerelease, and both refusing to bump one
C34_Witness ==
    /\ Called("draft_apply")
    /\ last.recv = MkVersion(1, 0, 1, <<"a", ".", "b", ".", "1">>, <<>>)
    /\ last.req = MkInput("BumpRelease", "Patch", <<>>, None)
    /\ last.out.tag = "Err"
    /\ apply(last.recv, last.req) = Err("BumpReleaseFromPrerelease")
    /\ apply(last.recv, MkInput("FinalizeRelease", "-", <<>>, None))
          = draft_apply(last.recv, MkInput("FinalizeRelease", "-", <<>>, None))

====
